---- MODULE Spec2Model ----
(***************************************************************************)
(* Model of the benchmark harness of js-object-cleaning-performance-compare *)
(* (src/index.js, src/old-version-compare.js).                              *)
(*                                                                         *)
(* Two specifications share the module:                                    *)
(*   SpecBench    one call of runBench, stepped statement by statement,    *)
(*                for each call site of the repository;                    *)
(*   SpecSession  the fixture loop and the overall summary, with one       *)
(*                action per runBench call.                                *)
(*                                                                         *)
(* Durations are kept in nanoseconds (the unit of process.hrtime.bigint);  *)
(* a millisecond value v is held as the number v * 1e6.  Quotients are     *)
(* exact fractions; NaN and the infinities of JS numbers are values.       *)
(***************************************************************************)
EXTENDS Integers, Sequences, FiniteSets, TLC

\* ------------------------------------------------------------------ bounds
MaxIters == 3
MaxWarmup == 1
\* clock cost (ns) of one contender operation, and of one cloneDeep
OpFast == 1
OpSlow == 2
CloneCost == 1
\* readings of process.memoryUsage()
HeapLow == 0
HeapHigh == 1
RssLow == 0
RssHigh == 1

\* ------------------------------------------------------------ JS numbers
Fin(n, d) == [k |-> "fin", n |-> n, d |-> d]
NaN == [k |-> "nan", n |-> 0, d |-> 1]
Infinity == [k |-> "inf", n |-> 1, d |-> 1]
NegInfinity == [k |-> "inf", n |-> 0 - 1, d |-> 1]

\* a <= b on JS numbers (false when either side is NaN)
Leq(a, b) ==
  IF a.k = "nan" \/ b.k = "nan" THEN FALSE
  ELSE IF a.k = "inf" THEN (a.n < 0 \/ (b.k = "inf" /\ b.n > 0))
  ELSE IF b.k = "inf" THEN b.n > 0
  ELSE a.n * b.d <= b.n * a.d

\* an array slot that was never assigned (new Array(n)), read as undefined
Hole == 0 - 1

IsNum(x) == x >= 0

RECURSIVE SumNums(_)
SumNums(s) ==
  IF s = <<>> THEN 0
  ELSE (IF IsNum(Head(s)) THEN Head(s) ELSE 0) + SumNums(Tail(s))

RECURSIVE Insert(_, _)
Insert(x, s) ==
  IF s = <<>> THEN <<x>>
  ELSE IF IsNum(Head(s)) /\ (~IsNum(x) \/ Head(s) <= x)
       THEN <<Head(s)>> \o Insert(x, Tail(s))
       ELSE <<x>> \o s

RECURSIVE SortAsc(_)
SortAsc(s) == IF s = <<>> THEN <<>> ELSE Insert(Head(s), SortAsc(Tail(s)))

MinOf(S) == CHOOSE x \in S : \A y \in S : x <= y
MaxOf(S) == CHOOSE x \in S : \A y \in S : y <= x
Elems(s) == {s[k] : k \in 1..Len(s)}

MathMin(s) ==
  IF s = <<>> THEN Infinity
  ELSE IF \E k \in 1..Len(s) : ~IsNum(s[k]) THEN NaN
  ELSE Fin(MinOf(Elems(s)), 1)

MathMax(s) ==
  IF s = <<>> THEN NegInfinity
  ELSE IF \E k \in 1..Len(s) : ~IsNum(s[k]) THEN NaN
  ELSE Fin(MaxOf(Elems(s)), 1)

\* sum / length, with 0 / 0 = NaN
MeanOf(s) == IF Len(s) = 0 THEN NaN ELSE Fin(SumNums(s), Len(s))

\* a[idx] for a 0-based index, undefined outside the array
At(a, idx) == IF idx < 0 \/ idx >= Len(a) THEN Hole ELSE a[idx + 1]

\* median taken from the array as it stands, without sorting the copy
median_Unsorted(arr) ==
  LET a == arr
      mid == Len(a) \div 2
  IN IF Len(a) % 2 = 1
       THEN (IF IsNum(At(a, mid)) THEN Fin(At(a, mid), 1) ELSE NaN)
       ELSE (IF IsNum(At(a, mid - 1)) /\ IsNum(At(a, mid))
               THEN Fin(At(a, mid - 1) + At(a, mid), 2) ELSE NaN)

median(arr) ==
  LET a == SortAsc(arr)
      mid == Len(a) \div 2
  IN IF Len(a) % 2 = 1
       THEN (IF IsNum(At(a, mid)) THEN Fin(At(a, mid), 1) ELSE NaN)
       ELSE (IF IsNum(At(a, mid - 1)) /\ IsNum(At(a, mid))
               THEN Fin(At(a, mid - 1) + At(a, mid), 2) ELSE NaN)

hrDiffMs(start, end) == end - start

\* ------------------------------------------------------------ call sites
\* baseline: index.js:152   runBench('clone-only', () => _.cloneDeep(objToClean))
\* cleaner : index.js:157   runBench(name, () => run(_.cloneDeep(objToClean)))
\* plain   : index.js:416   runBench(name, () => run(objToClean))
\* old     : old-version-compare.js:69   runBench(label, () => cleaner.clean(objToClean))
Sites == {"baseline", "cleaner", "plain", "old"}

\* which runBench a call site resolves to
Variant(s) ==
  IF s \in {"baseline", "cleaner"} THEN "mem"
  ELSE IF s = "plain" THEN "gc10" ELSE "nogc"

\* the clone hoisted out of the closure, ahead of the first clock reading
TimeOneOrder_CloneFirst(s) ==
  IF s = "baseline" THEN <<"clone", "t1", "t2">>
  ELSE IF s = "cleaner" THEN <<"clone", "t1", "op", "t2">>
  ELSE <<"t1", "op", "t2">>

\* the statements of timeOne(fn), fn being the call site's closure, in order
TimeOneOrder(s) ==
  IF s = "baseline" THEN <<"t1", "clone", "t2">>
  ELSE IF s = "cleaner" THEN <<"t1", "clone", "op", "t2">>
  ELSE <<"t1", "op", "t2">>

FirstStep(s) == TimeOneOrder(s)[1]
StepAfter(s, p) ==
  LET o == TimeOneOrder(s)
      k == CHOOSE j \in 1..Len(o) : o[j] = p
  IN IF k < Len(o) THEN o[k + 1] ELSE "ret"

\* fixture values: an object is the set of its keys; the NullKeys hold null
FixtureValue == {"id", "tmp"}
NullKeys == {"tmp"}
Clean(v) == v \ NullKeys
cloneDeep(v) == v
NoObj == {"<none>"}

NoTime == 0 - 1
NoMem == [heapUsed |-> 0 - 1, rss |-> 0 - 1]
NoResult == [name |-> "<none>"]

OpCosts == {OpFast, OpSlow}
Heaps == {HeapLow, HeapHigh}
Rsss == {RssLow, RssHigh}

VARIABLES
  site, iters, warmup, USE_GC,
  pc, phase, i, now, t1,
  samples, heapDeltas, pre, peakHeap, peakRSS,
  heapUsed, rss,
  objToClean, copy, result,
  program, files, fi, big, contenders, order, results, perFileResults,
  spc, agg, winCounts, winnerOverall, runnerOverall, uncaught

bvars == <<site, iters, warmup, USE_GC, pc, phase, i, now, t1, samples,
           heapDeltas, pre, peakHeap, peakRSS, heapUsed, rss, objToClean,
           copy, result>>

svars == <<program, files, fi, big, contenders, order, results,
           perFileResults, spc, agg, winCounts, winnerOverall, runnerOverall,
           uncaught>>

vars == <<bvars, svars>>

NoName == "<none>"
NoError == [name |-> NoName, file |-> NoName]

\* the session variables while a single runBench call is examined
SessionIdle ==
  /\ program = "index_mem"
  /\ files = <<>>
  /\ fi = 1
  /\ big = FALSE
  /\ contenders = <<>>
  /\ order = <<>>
  /\ results = <<>>
  /\ perFileResults = <<>>
  /\ spc = "idle"
  /\ agg = <<>>
  /\ winCounts = <<>>
  /\ winnerOverall = NoName
  /\ runnerOverall = NoName
  /\ uncaught = NoError

\* global.gc(): the heap in use does not grow
AfterGc(h) == {x \in Heaps : x <= h}
MaybeGc(cond, h) == IF cond THEN AfterGc(h) ELSE {h}

memNow == [heapUsed |-> heapUsed, rss |-> rss]

\* the measured loop stopping one iteration early
MeasureBound_OffByOne(n) == n - 1

\* loop bound of the measured loop
MeasureBound(n) == n

\* new Array(n)
NewArray(n) == [k \in 1..n |-> Hole]

\* the delta without the clamp at zero
HeapDelta_Unclamped(preHeap, postHeap) == postHeap - preHeap

\* heap delta of one measured iteration
HeapDelta(preHeap, postHeap) ==
  IF postHeap - preHeap > 0 THEN postHeap - preHeap ELSE 0

Stats(s, smp, deltas, pkHeap, pkRss) ==
  IF Variant(s) = "mem"
    THEN [name |-> s, samples |-> smp, min |-> MathMin(smp),
          median |-> median(smp), mean |-> MeanOf(smp), max |-> MathMax(smp),
          peakHeap |-> pkHeap, avgHeapDelta |-> MeanOf(deltas),
          peakRSS |-> pkRss]
    ELSE [name |-> s, samples |-> smp, min |-> MathMin(smp),
          median |-> median(smp), mean |-> MeanOf(smp), max |-> MathMax(smp)]

BenchInit ==
  /\ site \in Sites
  /\ iters \in 0..MaxIters
  /\ warmup \in 0..MaxWarmup
  /\ USE_GC \in BOOLEAN
  /\ pc = "warmup"
  /\ phase = "warmup"
  /\ i = 0
  /\ now = 0
  /\ t1 = NoTime
  /\ samples = <<>>
  /\ heapDeltas = <<>>
  /\ pre = NoMem
  /\ peakHeap = 0 - 1
  /\ peakRSS = 0 - 1
  /\ heapUsed \in (IF Variant(site) = "mem" THEN Heaps ELSE {HeapLow})
  /\ rss \in (IF Variant(site) = "mem" THEN Rsss ELSE {RssLow})
  /\ objToClean = FixtureValue
  /\ copy = NoObj
  /\ result = NoResult
  /\ SessionIdle

\* for (let i = 0; i < warmup; i++) timeOne(fn);   -- entering one call
WarmupCall ==
  /\ pc = "warmup"
  /\ i < warmup
  /\ pc' = FirstStep(site)
  /\ UNCHANGED <<site, iters, warmup, USE_GC, phase, i, now, t1, samples,
                 heapDeltas, pre, peakHeap, peakRSS, heapUsed, rss,
                 objToClean, copy, result>>
  /\ UNCHANGED svars

\* warmup done: stabilizing gc, allocation of the arrays, first peak readings
BeginMeasure ==
  /\ pc = "warmup"
  /\ i >= warmup
  /\ \E h \in MaybeGc(USE_GC /\ Variant(site) = "mem", heapUsed) :
       /\ heapUsed' = h
       /\ peakHeap' = (IF Variant(site) = "mem" THEN h ELSE peakHeap)
  /\ peakRSS' = (IF Variant(site) = "mem" THEN rss ELSE peakRSS)
  /\ samples' = NewArray(iters)
  /\ heapDeltas' = (IF Variant(site) = "mem" THEN NewArray(iters) ELSE heapDeltas)
  /\ i' = 0
  /\ phase' = "measure"
  /\ pc' = "loop"
  /\ UNCHANGED <<site, iters, warmup, USE_GC, now, t1, pre, rss, objToClean,
                 copy, result>>
  /\ UNCHANGED svars

\* head of one measured iteration: opportunistic gc and the pre-sample
MeasureCall ==
  /\ pc = "loop"
  /\ i < MeasureBound(iters)
  /\ \E h \in MaybeGc(USE_GC /\ Variant(site) = "mem", heapUsed) :
       /\ heapUsed' = h
       /\ pre' = (IF Variant(site) = "mem"
                    THEN [heapUsed |-> h, rss |-> rss] ELSE pre)
  /\ pc' = FirstStep(site)
  /\ UNCHANGED <<site, iters, warmup, USE_GC, phase, i, now, t1, samples,
                 heapDeltas, peakHeap, peakRSS, rss, objToClean, copy, result>>
  /\ UNCHANGED svars

\* const t1 = hrNow();
HrNowStart ==
  /\ pc = "t1"
  /\ t1' = now
  /\ pc' = StepAfter(site, "t1")
  /\ UNCHANGED <<site, iters, warmup, USE_GC, phase, i, now, samples,
                 heapDeltas, pre, peakHeap, peakRSS, heapUsed, rss,
                 objToClean, copy, result>>
  /\ UNCHANGED svars

\* _.cloneDeep(objToClean), evaluated inside the closure fn
FnClone ==
  /\ pc = "clone"
  /\ copy' = cloneDeep(objToClean)
  /\ now' = now + CloneCost
  /\ heapUsed' \in (IF Variant(site) = "mem" THEN Heaps ELSE {heapUsed})
  /\ rss' \in (IF Variant(site) = "mem" THEN Rsss ELSE {rss})
  /\ pc' = StepAfter(site, "clone")
  /\ UNCHANGED <<site, iters, warmup, USE_GC, phase, i, t1, samples,
                 heapDeltas, pre, peakHeap, peakRSS, objToClean, result>>
  /\ UNCHANGED svars

\* the contender's operation returns; it may have cleaned its argument in place
FnRun ==
  /\ pc = "op"
  /\ \E d \in OpCosts, inPlace \in BOOLEAN :
       /\ now' = now + d
       /\ IF copy # NoObj
            THEN /\ copy' = (IF inPlace THEN Clean(copy) ELSE copy)
                 /\ UNCHANGED objToClean
            ELSE /\ objToClean' = (IF inPlace THEN Clean(objToClean) ELSE objToClean)
                 /\ UNCHANGED copy
  /\ heapUsed' \in (IF Variant(site) = "mem" THEN Heaps ELSE {heapUsed})
  /\ rss' \in (IF Variant(site) = "mem" THEN Rsss ELSE {rss})
  /\ pc' = StepAfter(site, "op")
  /\ UNCHANGED <<site, iters, warmup, USE_GC, phase, i, t1, samples,
                 heapDeltas, pre, peakHeap, peakRSS, result>>
  /\ UNCHANGED svars

\* the contender's operation throws: nothing in timeOne or runBench catches it
FnThrow ==
  /\ pc = "op"
  /\ pc' = "thrown"
  /\ UNCHANGED <<site, iters, warmup, USE_GC, phase, i, now, t1, samples,
                 heapDeltas, pre, peakHeap, peakRSS, heapUsed, rss,
                 objToClean, copy, result>>
  /\ UNCHANGED svars

\* const t2 = hrNow(); return hrDiffMs(t1, t2);  and the caller's use of it
HrNowEnd ==
  /\ pc = "t2"
  /\ t1' = NoTime
  /\ copy' = NoObj
  /\ IF phase = "warmup"
       THEN /\ i' = i + 1
            /\ pc' = "warmup"
            /\ UNCHANGED samples
       ELSE /\ samples' = [samples EXCEPT ![i + 1] = hrDiffMs(t1, now)]
            /\ IF Variant(site) = "mem"
                 THEN pc' = "post" /\ UNCHANGED i
                 ELSE pc' = "loop" /\ i' = i + 1
  /\ UNCHANGED <<site, iters, warmup, USE_GC, phase, now, heapDeltas, pre,
                 peakHeap, peakRSS, heapUsed, rss, objToClean, result>>
  /\ UNCHANGED svars

\* post-sample, delta, peaks, and the gc of every third iteration
PostSample ==
  /\ pc = "post"
  /\ heapDeltas' = [heapDeltas EXCEPT ![i + 1] = HeapDelta(pre.heapUsed, memNow.heapUsed)]
  /\ peakHeap' = (IF memNow.heapUsed > peakHeap THEN memNow.heapUsed ELSE peakHeap)
  /\ peakRSS' = (IF memNow.rss > peakRSS THEN memNow.rss ELSE peakRSS)
  /\ heapUsed' \in MaybeGc(USE_GC /\ (i + 1) % 3 = 0, heapUsed)
  /\ i' = i + 1
  /\ pc' = "loop"
  /\ UNCHANGED <<site, iters, warmup, USE_GC, phase, now, t1, samples, pre,
                 rss, objToClean, copy, result>>
  /\ UNCHANGED svars

\* the loop is over: statistics and the returned Result
ReturnResult ==
  /\ pc = "loop"
  /\ i >= MeasureBound(iters)
  /\ result' = Stats(site, samples, heapDeltas, peakHeap, peakRSS)
  /\ pc' = "done"
  /\ UNCHANGED <<site, iters, warmup, USE_GC, phase, i, now, t1, samples,
                 heapDeltas, pre, peakHeap, peakRSS, heapUsed, rss,
                 objToClean, copy>>
  /\ UNCHANGED svars

BenchNext ==
  \/ WarmupCall
  \/ BeginMeasure
  \/ MeasureCall
  \/ HrNowStart
  \/ FnClone
  \/ FnRun
  \/ FnThrow
  \/ HrNowEnd
  \/ PostSample
  \/ ReturnResult

SpecBench == BenchInit /\ [][BenchNext]_vars

\* ------------------------------------------------------------ the session
\* index_mem  : src/index.js lines 1-310 (clone per call, memory columns)
\* index_plain: src/index.js lines 312-488
\* old        : src/old-version-compare.js
Programs == {"index_mem", "index_plain", "old"}

Registered(p) ==
  IF p = "old" THEN <<"v1.4.0", "v1.5.2">>
  ELSE <<"deep-cleaner", "clean-deep", "fast-clean">>

\* listings of the samples directory
Listings == {<<"large.json">>, <<"small.json">>, <<"large.json", "small.json">>}

\* mean duration (ns) a runBench call may return
MeanFast == 400
MeanSlow == 800
Means == {MeanFast, MeanSlow}

\* nanoseconds per unit of the last digit of n.toFixed(3), n in milliseconds
NsPerDisplayUnit == 1000

\* fmtMs(n / d): the decimal string with three digits, held as the integer
\* count of thousandths (toFixed rounds to nearest, the larger one on a tie)
fmtMs(n, d) == (2 * n + NsPerDisplayUnit * d) \div (2 * NsPerDisplayUnit * d)

\* Number(str.replace(' ms', '')), in thousandths of a millisecond
ParseMs(str) == str

\* a[i] = a[j] without saving a[i]: the second half of the swap is lost
Swap_Overwrite(a, x, y) == [a EXCEPT ![x + 1] = a[y + 1]]

\* [a[i], a[j]] = [a[j], a[i]]  (0-based indices)
Swap(a, x, y) == [a EXCEPT ![x + 1] = a[y + 1], ![y + 1] = a[x + 1]]

\* the draws Math.floor(Math.random() * (i + 1)) for i = n-1 .. 1
Draws(n) == [1..(n - 1) -> 0..(n - 1)]
ValidDraws(n) == {r \in Draws(n) : \A k \in 1..(n - 1) : r[k] <= k}

RECURSIVE ShuffleFrom(_, _, _)
ShuffleFrom(a, k, rnd) ==
  IF k <= 0 THEN a ELSE ShuffleFrom(Swap(a, k, rnd[k]), k - 1, rnd)

\* shuffle(arr): arr as the call leaves it, and the returned array
shuffle(arr, rnd) ==
  [arr |-> arr, a |-> ShuffleFrom(arr, Len(arr) - 1, rnd)]

\* [...results].sort((a, b) => a.mean - b.mean), a stable sort
RECURSIVE InsertByMean(_, _)
InsertByMean(x, s) ==
  IF s = <<>> THEN <<x>>
  ELSE IF Head(s).mean < x.mean
       THEN <<Head(s)>> \o InsertByMean(x, Tail(s))
       ELSE <<x>> \o s

RECURSIVE SortByMean(_)
SortByMean(s) ==
  IF s = <<>> THEN <<>> ELSE InsertByMean(Head(s), SortByMean(Tail(s)))

\* winner of one fixture
FileWinner(p, res) ==
  IF p = "old"
    THEN (IF res[1].mean < res[2].mean THEN res[1].name ELSE res[2].name)
    ELSE SortByMean(res)[1].name

CurrentFile == files[fi]
FileLabel == IF big THEN "small.json (x100000)" ELSE CurrentFile

RECURSIVE SumMeans(_, _)
SumMeans(rows, n) ==
  IF rows = <<>> THEN 0
  ELSE (IF Head(rows).name = n THEN Head(rows).mean ELSE 0) + SumMeans(Tail(rows), n)

RECURSIVE TimeSum(_, _)
TimeSum(pfr, n) ==
  IF pfr = <<>> THEN 0 ELSE SumMeans(Head(pfr).rows, n) + TimeSum(Tail(pfr), n)

RECURSIVE CountRows(_, _)
CountRows(pfr, n) ==
  IF pfr = <<>> THEN 0
  ELSE Cardinality({k \in 1..Len(Head(pfr).rows) : Head(pfr).rows[k].name = n})
       + CountRows(Tail(pfr), n)

\* a win counted for every row of a file instead of for its winner
WinCounts_PerRow(names, pfr) ==
  [n \in {names[k] : k \in 1..Len(names)} |-> CountRows(pfr, n)]

\* winCounts[r.winner] += 1 over perFileResults
WinCounts(names, pfr) ==
  [n \in {names[k] : k \in 1..Len(names)} |->
     Cardinality({e \in 1..Len(pfr) : pfr[e].winner = n})]

Agg(names, pfr) ==
  [n \in {names[k] : k \in 1..Len(names)} |-> TimeSum(pfr, n)]

\* overallRows.sort(...) on the parsed 'overall mean' strings, a stable sort
RECURSIVE InsertByOverall(_, _)
InsertByOverall(x, s) ==
  IF s = <<>> THEN <<x>>
  ELSE IF ParseMs(Head(s).overallMean) < ParseMs(x.overallMean)
       THEN <<Head(s)>> \o InsertByOverall(x, Tail(s))
       ELSE <<x>> \o s

RECURSIVE SortByOverall(_)
SortByOverall(s) ==
  IF s = <<>> THEN <<>> ELSE InsertByOverall(Head(s), SortByOverall(Tail(s)))

OverallRows(names, pfr) ==
  SortByOverall([k \in 1..Len(names) |->
    [Cleaner |-> names[k],
     overallMean |-> fmtMs(TimeSum(pfr, names[k]), Len(pfr)),
     Wins |-> WinCounts(names, pfr)[names[k]]]])

\* v14OverallMean < v152OverallMean ? 'v1.4.0' : 'v1.5.2'
OverallFaster(pfr) ==
  IF TimeSum(pfr, "v1.4.0") < TimeSum(pfr, "v1.5.2") THEN "v1.4.0" ELSE "v1.5.2"

SessionInit ==
  /\ program \in Programs
  /\ files \in Listings
  /\ fi = 1
  /\ big = FALSE
  /\ contenders = Registered(program)
  /\ order = <<>>
  /\ results = <<>>
  /\ perFileResults = <<>>
  /\ spc = "file"
  /\ agg = <<>>
  /\ winCounts = <<>>
  /\ winnerOverall = NoName
  /\ runnerOverall = NoName
  /\ uncaught = NoError
  /\ site = "cleaner"
  /\ iters = 0
  /\ warmup = 0
  /\ USE_GC = FALSE
  /\ pc = "idle"
  /\ phase = "idle"
  /\ i = 0
  /\ now = 0
  /\ t1 = NoTime
  /\ samples = <<>>
  /\ heapDeltas = <<>>
  /\ pre = NoMem
  /\ peakHeap = 0 - 1
  /\ peakRSS = 0 - 1
  /\ heapUsed = HeapLow
  /\ rss = RssLow
  /\ objToClean = FixtureValue
  /\ copy = NoObj
  /\ result = NoResult

\* for (const fileName of files): the next fixture, and the order of its runs
NextFile ==
  /\ spc = "file"
  /\ fi <= Len(files)
  /\ IF program = "old"
       THEN order' = contenders /\ UNCHANGED contenders
       ELSE \E rnd \in ValidDraws(Len(contenders)) :
              /\ order' = shuffle(contenders, rnd).a
              /\ contenders' = shuffle(contenders, rnd).arr
  /\ results' = <<>>
  /\ spc' = (IF program = "index_mem" THEN "baseline" ELSE "bench")
  /\ UNCHANGED <<program, files, fi, big, perFileResults, agg, winCounts,
                 winnerOverall, runnerOverall, uncaught>>
  /\ UNCHANGED bvars

\* the clone-only baseline run; its mean is printed and kept nowhere
CloneOnly ==
  /\ spc = "baseline"
  /\ spc' = "bench"
  /\ UNCHANGED <<program, files, fi, big, contenders, order, results,
                 perFileResults, agg, winCounts, winnerOverall, runnerOverall,
                 uncaught>>
  /\ UNCHANGED bvars

\* one runBench call of order.map(...) returns its Result
RunContender ==
  /\ spc = "bench"
  /\ Len(results) < Len(order)
  /\ \E m \in Means :
       results' = Append(results, [name |-> order[Len(results) + 1], mean |-> m])
  /\ UNCHANGED <<program, files, fi, big, contenders, order, perFileResults,
                 spc, agg, winCounts, winnerOverall, runnerOverall, uncaught>>
  /\ UNCHANGED bvars

\* the contender throws inside runBench: no try/catch on the way up, the
\* exception leaves the fixture loop and ends the process
ContenderThrows ==
  /\ spc = "bench"
  /\ Len(results) < Len(order)
  /\ uncaught' = [name |-> order[Len(results) + 1], file |-> FileLabel]
  /\ spc' = "crashed"
  /\ UNCHANGED <<program, files, fi, big, contenders, order, results,
                 perFileResults, agg, winCounts, winnerOverall, runnerOverall>>
  /\ UNCHANGED bvars

\* ranking of the fixture and the push to perFileResults
RankFile ==
  /\ spc = "bench"
  /\ Len(results) = Len(order)
  /\ perFileResults' = Append(perFileResults,
       [file |-> FileLabel, rows |-> results,
        winner |-> FileWinner(program, results)])
  /\ IF program = "index_mem" /\ CurrentFile = "small.json" /\ ~big
       THEN /\ big' = TRUE
            /\ results' = <<>>
            /\ spc' = "baseline"
            /\ UNCHANGED fi
       ELSE /\ big' = FALSE
            /\ fi' = fi + 1
            /\ spc' = "file"
            /\ UNCHANGED results
  /\ UNCHANGED <<program, files, contenders, order, agg, winCounts,
                 winnerOverall, runnerOverall, uncaught>>
  /\ UNCHANGED bvars

\* the overall summary after the last fixture
Summary ==
  /\ spc = "file"
  /\ fi > Len(files)
  /\ agg' = Agg(contenders, perFileResults)
  /\ winCounts' = WinCounts(contenders, perFileResults)
  /\ IF program = "old"
       THEN /\ winnerOverall' = OverallFaster(perFileResults)
            /\ runnerOverall' = NoName
       ELSE /\ winnerOverall' = OverallRows(contenders, perFileResults)[1].Cleaner
            /\ runnerOverall' = OverallRows(contenders, perFileResults)[2].Cleaner
  /\ spc' = "finished"
  /\ UNCHANGED <<program, files, fi, big, contenders, order, results,
                 perFileResults, uncaught>>
  /\ UNCHANGED bvars

SessionNext ==
  \/ NextFile
  \/ CloneOnly
  \/ RunContender
  \/ ContenderThrows
  \/ RankFile
  \/ Summary

SpecSession == SessionInit /\ [][SessionNext]_vars

\* ---------------------------------------------------------------- claims
Zero == Fin(0, 1)
Filled(s) == \A k \in 1..Len(s) : IsNum(s[k])

\* v is the k-th smallest entry of s (1-based), stated by counting
KthSmallest(s, k, v) ==
  /\ v \in Elems(s)
  /\ Cardinality({j \in 1..Len(s) : s[j] < v}) < k
  /\ k <= Cardinality({j \in 1..Len(s) : s[j] <= v})

\* C1: for every warmup count and every measured count M >= 1 the returned
\* Result holds exactly M samples, each one a recorded duration; the warmup
\* invocations record none.
C1_SamplesLength ==
  /\ (phase = "warmup" => samples = <<>>)
  /\ (pc = "done" /\ iters >= 1) =>
       /\ Len(result.samples) = iters
       /\ Filled(result.samples)

C1_Witness ==
  pc = "done" /\ iters >= 2 /\ warmup >= 1 /\ Len(result.samples) = iters

C8_ZeroItersRejected ==
  iters = 0 =>
    /\ pc \notin {"t1", "clone", "op", "t2"}
    /\ result = NoResult

\* C9: every invocation hands the contender an independent copy, so the
\* fixture value is the original one after any number of iterations.
C9_FixtureUnchanged == objToClean = FixtureValue

\* C10: in every measured iteration the fixture is cloned outside the timed
\* region, i.e. not between the two clock readings of timeOne.
C10_CloneOutsideTimedRegion ==
  (pc = "clone" /\ phase = "measure") => t1 = NoTime

\* C10 (as amended): at the call sites that clone, the clone happens inside
\* the timed region, right after the first clock reading, so the duration
\* sample covers the clone and the operation together.
C10_CloneInsideTimedRegion ==
  /\ pc = "clone" => (t1 # NoTime /\ t1 = now)
  /\ (pc = "op" /\ site = "cleaner") => (t1 # NoTime /\ now - t1 = CloneCost)
  /\ (pc = "t2" /\ site \in {"baseline", "cleaner"}) =>
       (t1 # NoTime /\ hrDiffMs(t1, now) >= CloneCost)

C10_Witness ==
  pc = "t2" /\ phase = "measure" /\ site = "cleaner" /\ copy # NoObj

RECURSIVE SumOver(_, _)
SumOver(f, names) ==
  IF names = <<>> THEN 0 ELSE f[Head(names)] + SumOver(f, Tail(names))

Count(seq, x) == Cardinality({k \in 1..Len(seq) : seq[k] = x})

\* a holds every entry of b exactly once and nothing else
IsPermutation(a, b) ==
  /\ Len(a) = Len(b)
  /\ \A k \in 1..Len(b) : Count(a, b[k]) = 1

RowNames(rows) == [k \in 1..Len(rows) |-> rows[k].name]

\* C4: after the session the win counts sum to the number of entries pushed
\* to perFileResults, each entry counting for one registered contender.
C4_WinCountsSum ==
  spc = "finished" =>
    /\ SumOver(winCounts, Registered(program)) = Len(perFileResults)
    /\ \A e \in 1..Len(perFileResults) :
         /\ Count(Registered(program), perFileResults[e].winner) = 1
         /\ winCounts[perFileResults[e].winner] >= 1

C4_Witness ==
  /\ spc = "finished"
  /\ Len(perFileResults) >= 2
  /\ perFileResults[1].winner # perFileResults[2].winner

\* C5: the overall winner is a contender of lowest meanOfMeans (timeSum over
\* the number of processed fixtures), whatever the win counts; the overall
\* runner-up has the lowest meanOfMeans among the others.
C5_WinnerHasLowestMeanOfMeans ==
  spc = "finished" =>
    /\ \A k \in 1..Len(contenders) : agg[winnerOverall] <= agg[contenders[k]]
    /\ program # "old" =>
         \A k \in 1..Len(contenders) :
           contenders[k] # winnerOverall => agg[runnerOverall] <= agg[contenders[k]]

\* C6: for every outcome of the random draws the run order of a fixture is a
\* permutation of the registered contenders, the registered list is left as
\* it was, and every pushed entry has exactly one row per registered contender.
C6_ShuffleIsPermutation ==
  /\ contenders = Registered(program)
  /\ spc \in {"baseline", "bench"} => IsPermutation(order, Registered(program))
  /\ \A e \in 1..Len(perFileResults) :
       IsPermutation(RowNames(perFileResults[e].rows), Registered(program))

C6_Witness ==
  /\ program = "index_mem"
  /\ Len(perFileResults) >= 1
  /\ RowNames(perFileResults[1].rows) = <<"fast-clean", "deep-cleaner", "clean-deep">>

\* C7: a contender that throws yields no Result for that fixture, the failure
\* is recorded for the fixture, and the session goes on to the remaining
\* fixtures instead of ending without a report.
C7_ThrowIsIsolated ==
  uncaught # NoError =>
    /\ \A k \in 1..Len(results) : results[k].name # uncaught.name
    /\ ~(spc = "crashed" /\ fi < Len(files))

\* C11: the peakHeap of a Result is the maximum of the 'after' heap snapshots
\* of the measured iterations, and peakRSS the maximum of the 'after' rss
\* snapshots; no snapshot taken outside the measured iterations contributes.
\* Stated step by step: the first after-snapshot becomes the peak, every
\* later one raises it when it is larger.
C11_PeakIsMaxOfAfterSnapshots ==
  [][pc = "post" =>
       /\ peakHeap' = (IF i = 0 \/ memNow.heapUsed > peakHeap
                         THEN memNow.heapUsed ELSE peakHeap)
       /\ peakRSS' = (IF i = 0 \/ memNow.rss > peakRSS
                        THEN memNow.rss ELSE peakRSS)]_vars

====
